---------------------------- MODULE Spec2Model ----------------------------
(***************************************************************************)
(* Indian Railways conversational IVR (ivr_backend.py): the intent         *)
(* classifier (detect_intent, detect_intent_gemini, map_digits_to_intent), *)
(* the per-call session store (session_context) and the dialogue handlers  *)
(* (/voice, /conversation with next_step, /call/start, /call/end).         *)
(*                                                                         *)
(* Texts are sequences of one-character strings, so that lower(), strip(), *)
(* the regular expressions and the substring tests of the source are       *)
(* computed character by character.                                        *)
(***************************************************************************)
EXTENDS Integers, Sequences, FiniteSets, TLC

VARIABLES
    session_context,  \* the module-level dict: call id -> context dict
    GEMINI_API_KEY,   \* whether the environment configures the oracle
    SUPPORT_PHONE_NUMBER, \* the agent's number of the environment, "" when unset
    BASE_WEBHOOK_URL, \* the public URL of the environment, "" when unset
    TWILIO_PHONE_NUMBER, \* the caller number of the environment, "" when unset
    client,           \* whether the Twilio REST client was built (None otherwise)
    response,         \* the TwiML document (or status, or JSON) of the last request
    last,             \* the last request: operation, form, oracle reply, store before it
    scenario,         \* progress of the booking scenario of e2e_test.py
    alone,            \* per call id: the store had only that call's requests been made
    phase,            \* per call id: new, active, closed (said goodbye) or ended
    booked            \* per call id: last_intent was book_ticket since its context began

\* the configuration, read once when the module is loaded
env == <<GEMINI_API_KEY, SUPPORT_PHONE_NUMBER, BASE_WEBHOOK_URL, TWILIO_PHONE_NUMBER,
         client>>

vars == <<session_context, env, response, last, scenario, alone, phase, booked>>

-----------------------------------------------------------------------------
(* Characters and the string methods of the source.                        *)

UpperChars == <<"A","B","C","D","E","F","G","H","I","J","K","L","M",
                "N","O","P","Q","R","S","T","U","V","W","X","Y","Z">>

LowerChars == <<"a","b","c","d","e","f","g","h","i","j","k","l","m",
                "n","o","p","q","r","s","t","u","v","w","x","y","z">>

DigitChars == {"0","1","2","3","4","5","6","7","8","9"}

SpaceChars == {" ", "\t", "\n"}

Range(s) == {s[i] : i \in DOMAIN s}

\* \d of the regular expressions and str.isdigit, on one character
IsDigitChar(c) == c \in DigitChars

\* \s
IsSpaceChar(c) == c \in SpaceChars

\* \w
IsWordChar(c) == c \in Range(UpperChars) \cup Range(LowerChars) \cup DigitChars \cup {"_"}

LowerChar(c) ==
    IF c \in Range(UpperChars)
    THEN LowerChars[CHOOSE i \in DOMAIN UpperChars : UpperChars[i] = c]
    ELSE c

\* str.lower()
Lower(s) == [i \in DOMAIN s |-> LowerChar(s[i])]

\* str.strip()
Strip(s) ==
    LET keep == {i \in DOMAIN s : ~IsSpaceChar(s[i])}
    IN  IF keep = {} THEN <<>>
        ELSE LET lo == CHOOSE i \in keep : \A j \in keep : i <= j
                 hi == CHOOSE i \in keep : \A j \in keep : j <= i
             IN  SubSeq(s, lo, hi)

\* str.isdigit(): non-empty and every character a digit
IsDigit(s) == Len(s) > 0 /\ \A i \in DOMAIN s : IsDigitChar(s[i])

\* re.fullmatch(r"\d+", s)
FullMatchDigits(s) == Len(s) > 0 /\ \A i \in DOMAIN s : IsDigitChar(s[i])

\* sub occurs in s starting at index i (1-based)
OccursAt(sub, s, i) ==
    /\ i >= 1
    /\ i + Len(sub) - 1 <= Len(s)
    /\ \A k \in DOMAIN sub : s[i + k - 1] = sub[k]

\* the Python test  sub in s
Contains(sub, s) == \E i \in 1..(Len(s) + 1) : OccursAt(sub, s, i)

\* \b between s[p] and s[p+1] (p in 0..Len(s)): exactly one side is a word character
WordBoundary(s, p) ==
    LET before == p >= 1 /\ IsWordChar(s[p])
        after  == p + 1 <= Len(s) /\ IsWordChar(s[p + 1])
    IN  before # after

\* re.search(r"\b(a1|a2|...)\b", s) for literal alternatives alts
SearchWords(alts, s) ==
    \E a \in alts : \E i \in 1..(Len(s) + 1) :
        /\ OccursAt(a, s, i)
        /\ WordBoundary(s, i - 1)
        /\ WordBoundary(s, i + Len(a) - 1)

\* re.search(r"\d{1,2}\s+\w+", s)
SearchDayWord(s) ==
    \E i \in DOMAIN s : \E n \in 1..2 : \E j \in DOMAIN s :
        /\ i + n < j
        /\ \A k \in i..(i + n - 1) : IsDigitChar(s[k])
        /\ \A k \in (i + n)..(j - 1) : IsSpaceChar(s[k])
        /\ IsWordChar(s[j])

-----------------------------------------------------------------------------
(* Intent detection: digits, then the Gemini oracle, then the keyword      *)
(* rules.                                                                  *)

\* the nine intents of the digit table, in keypad order
KnownIntents == <<"book_ticket", "check_pnr", "cancel_ticket", "fare_enquiry",
                  "tatkal_info", "talk_agent", "special_assistance",
                  "train_live_status", "platform_locator">>

\* valid_intents of detect_intent_gemini
valid_intents == Range(KnownIntents) \cup {"unknown"}

\* the spelling of each intent name, to compare with the oracle's answer
IntentChars == [
    book_ticket |->
        <<"b","o","o","k","_","t","i","c","k","e","t">>,
    check_pnr |->
        <<"c","h","e","c","k","_","p","n","r">>,
    cancel_ticket |->
        <<"c","a","n","c","e","l","_","t","i","c","k","e","t">>,
    fare_enquiry |->
        <<"f","a","r","e","_","e","n","q","u","i","r","y">>,
    tatkal_info |->
        <<"t","a","t","k","a","l","_","i","n","f","o">>,
    talk_agent |->
        <<"t","a","l","k","_","a","g","e","n","t">>,
    special_assistance |->
        <<"s","p","e","c","i","a","l","_","a","s","s","i","s","t","a","n","c","e">>,
    train_live_status |->
        <<"t","r","a","i","n","_","l","i","v","e","_","s","t","a","t","u","s">>,
    platform_locator |->
        <<"p","l","a","t","f","o","r","m","_","l","o","c","a","t","o","r">>,
    unknown |->
        <<"u","n","k","n","o","w","n">>
]

\* the dict of map_digits_to_intent
mapping ==
    (<<"1">> :> "book_ticket") @@ (<<"2">> :> "check_pnr") @@
    (<<"3">> :> "cancel_ticket") @@ (<<"4">> :> "fare_enquiry") @@
    (<<"5">> :> "tatkal_info") @@ (<<"6">> :> "talk_agent") @@
    (<<"7">> :> "special_assistance") @@ (<<"8">> :> "train_live_status") @@
    (<<"9">> :> "platform_locator")

\* mapping.get(digits, "unknown")
map_digits_to_intent(digits) ==
    IF digits \in DOMAIN mapping THEN mapping[digits] ELSE "unknown"

\* What the oracle does when asked: it raises (network failure, timeout,
\* blocked answer) or answers with a text.
OracleRaises == [raises |-> TRUE, text |-> <<>>]

OracleSays(text) == [raises |-> FALSE, text |-> text]

\* detect_intent_gemini without its try/except and its check of the answer: a
\* failure of the oracle escapes as "Exception", any answer is returned
detect_intent_gemini_run_unguarded(text, key, reply) ==
    IF ~key THEN [intent |-> "unknown", called |-> FALSE]
    ELSE IF reply.raises
         THEN [intent |-> "Exception", called |-> TRUE]
         ELSE LET intent == Strip(reply.text)
              IN  IF \E v \in valid_intents : IntentChars[v] = intent
                  THEN [intent |-> CHOOSE v \in valid_intents : IntentChars[v] = intent,
                        called |-> TRUE]
                  ELSE [intent |-> "Invalid", called |-> TRUE]

\* detect_intent_gemini: the intent it returns, and whether generate_content
\* was called.  key is GEMINI_API_KEY, reply what the oracle does when called.
detect_intent_gemini_run(text, key, reply) ==
    IF ~key THEN [intent |-> "unknown", called |-> FALSE]
    ELSE IF reply.raises
         THEN [intent |-> "unknown", called |-> TRUE]        \* except Exception
         ELSE LET intent == Strip(reply.text)
              IN  IF \E v \in valid_intents : IntentChars[v] = intent
                  THEN [intent |-> CHOOSE v \in valid_intents : IntentChars[v] = intent,
                        called |-> TRUE]
                  ELSE [intent |-> "unknown", called |-> TRUE]

detect_intent_gemini(text, key, reply) == detect_intent_gemini_run(text, key, reply).intent

\* the regular expressions of detect_intent's fallback, in source order
KeywordRules == <<
    [intent |-> "cancel_ticket",
     words |-> {<<"c","a","n","c","e","l">>,
                <<"r","e","f","u","n","d">>}],
    [intent |-> "book_ticket",
     words |-> {<<"b","o","o","k">>,
                <<"r","e","s","e","r","v","e">>,
                <<"t","i","c","k","e","t">>,
                <<"r","e","s","e","r","v","a","t","i","o","n">>}],
    [intent |-> "check_pnr",
     words |-> {<<"p","n","r">>,
                <<"s","t","a","t","u","s">>}],
    [intent |-> "fare_enquiry",
     words |-> {<<"f","a","r","e">>,
                <<"c","o","s","t">>,
                <<"p","r","i","c","e">>,
                <<"h","o","w"," ","m","u","c","h">>}],
    [intent |-> "tatkal_info",
     words |-> {<<"t","a","t","k","a","l">>}],
    [intent |-> "talk_agent",
     words |-> {<<"a","g","e","n","t">>,
                <<"o","p","e","r","a","t","o","r">>,
                <<"r","e","p","r","e","s","e","n","t","a","t","i","v","e">>,
                <<"c","u","s","t","o","m","e","r"," ","c","a","r","e">>}],
    [intent |-> "special_assistance",
     words |-> {<<"a","s","s","i","s","t","a","n","c","e">>,
                <<"h","e","l","p">>,
                <<"s","u","p","p","o","r","t">>}],
    [intent |-> "train_live_status",
     words |-> {<<"l","i","v","e"," ","s","t","a","t","u","s">>,
                <<"r","u","n","n","i","n","g"," ","s","t","a","t","u","s">>,
                <<"w","h","e","r","e"," ","i","s"," ","t","r","a","i","n">>,
                <<"r","u","n","n","i","n","g">>}],
    [intent |-> "platform_locator",
     words |-> {<<"p","l","a","t","f","o","r","m">>,
                <<"w","h","i","c","h"," ","p","l","a","t","f","o","r","m">>,
                <<"w","h","e","r","e"," ","p","l","a","t","f","o","r","m">>}]
>>

\* the keyword rules with the last matching rule winning
detect_intent_rules_last_match(text) ==
    LET hits == {k \in DOMAIN KeywordRules : SearchWords(KeywordRules[k].words, text)}
    IN  IF hits = {} THEN "unknown"
        ELSE KeywordRules[CHOOSE k \in hits : \A h \in hits : h <= k].intent

\* lines 152-171 of detect_intent: the first rule that matches, else "unknown"
detect_intent_rules(text) ==
    LET hits == {k \in DOMAIN KeywordRules : SearchWords(KeywordRules[k].words, text)}
    IN  IF hits = {} THEN "unknown"
        ELSE KeywordRules[CHOOSE k \in hits : \A h \in hits : k <= h].intent

\* detect_intent asking the oracle before looking for digits
detect_intent_run_oracle_first(text, key, reply) ==
    LET t == Strip(Lower(text))
        g == detect_intent_gemini_run(t, key, reply)
    IN  IF g.intent # "unknown"
        THEN [intent |-> g.intent, oracle |-> g.called, rules |-> FALSE]
        ELSE IF FullMatchDigits(t)
        THEN [intent |-> map_digits_to_intent(t), oracle |-> g.called, rules |-> FALSE]
        ELSE [intent |-> detect_intent_rules(t), oracle |-> g.called, rules |-> TRUE]

\* detect_intent, with what it consulted on the way: the oracle (generate_content
\* called) and the keyword rules.  The handlers never pass None.
detect_intent_run(text, key, reply) ==
    LET t == Strip(Lower(text))
    IN  IF FullMatchDigits(t)
        THEN [intent |-> map_digits_to_intent(t), oracle |-> FALSE, rules |-> FALSE]
        ELSE LET g == detect_intent_gemini_run(t, key, reply)
             IN  IF g.intent # "unknown"
                 THEN [intent |-> g.intent, oracle |-> g.called, rules |-> FALSE]
                 ELSE [intent |-> detect_intent_rules(t), oracle |-> g.called,
                       rules |-> TRUE]

detect_intent(text, key, reply) == detect_intent_run(text, key, reply).intent

-----------------------------------------------------------------------------
(* Python dicts, as functions on the set of their keys.                    *)

EmptyDict == [k \in {} |-> k]

\* d.get(k, default)
DictGet(d, k, default) == IF k \in DOMAIN d THEN d[k] ELSE default

\* d[k] = v
DictSet(d, k, v) == [x \in DOMAIN d \cup {k} |-> IF x = k THEN v ELSE d[x]]

\* d.pop(k, None)
DictPop(d, k) == [x \in DOMAIN d \ {k} |-> d[x]]

\* Python's None, as a value of last_intent
None == "None"

-----------------------------------------------------------------------------
(* Configuration read from the environment, and the TwiML documents.       *)

\* f"{BASE_WEBHOOK_URL}{path}", or the path alone
webhook(path) == IF BASE_WEBHOOK_URL # "" THEN <<BASE_WEBHOOK_URL, path>> ELSE <<path>>

\* timeout=5 of every gather
GatherTimeout == 5

\* a fixed text, and an f-string with {user_text} in it
Text(fmt) == [fmt |-> fmt, user_text |-> <<>>]

TextWith(fmt, user_text) == [fmt |-> fmt, user_text |-> user_text]

Say(text) == [verb |-> "Say", text |-> text]

Hangup == [verb |-> "Hangup"]

Dial(number) == [verb |-> "Dial", number |-> number]

Redirect(url) == [verb |-> "Redirect", url |-> url]

\* resp.gather(input="speech dtmf", action=..., timeout=5) with gather.say(text)
Gather(text) ==
    [verb |-> "Gather", input |-> "speech dtmf", action |-> webhook("/conversation"),
     timeout |-> GatherTimeout, say |-> text]

\* the gather of /voice, which also sets num_digits=1
GatherOneDigit(text) ==
    [verb |-> "Gather", input |-> "speech dtmf", num_digits |-> 1,
     action |-> webhook("/conversation"), timeout |-> GatherTimeout, say |-> text]

\* Response(content=str(resp), media_type="application/xml")
XmlResponse(verbs) == [status_code |-> 200, twiml |-> verbs]

\* Response(status_code=200)
EmptyResponse == [status_code |-> 200, twiml |-> <<>>]

GreetingText ==
    Text("Welcome to Indian Railways helpline. You can speak naturally or press a number. For booking a ticket press 1. To check P N R status press 2. To cancel your ticket press 3. For fare enquiry press 4. For Tatkal information press 5. To talk to an agent press 6. For special assistance press 7. For live train running status press 8. For platform locator press 9.")

ClosingText ==
    Text("Thank you for using Indian Railways helpline. Have a great journey ahead!")

\* the source spells "didn't" with a typographic apostrophe
FallbackText == Text("Sorry, I didn't understand that. Could you please repeat?")

AnythingElseText == Text("Is there anything else you'd like help with?")

ACSelectedText == Text("A C class selected. Please confirm your travel date.")

SleeperSelectedText == Text("Sleeper class selected. Please confirm your travel date.")

BookingDateText(user_text) ==
    TextWith("Booking date {user_text} noted. Your ticket will be processed soon. Would you like anything else?", user_text)

SpecifyClassText == Text("Please specify your class - Sleeper or AC.")

PnrConfirmedText(user_text) ==
    TextWith("PNR {user_text} is confirmed. The train is running on time. Need further help?", user_text)

PnrRepromptText == Text("Please provide a valid ten digit P N R number.")

LiveStatusText(user_text) ==
    TextWith("Fetching live running status for train {user_text}. The train is currently reported on time.", user_text)

PlatformText(user_text) ==
    TextWith("Platform information for train {user_text}: It is expected to arrive at platform number 5.", user_text)

\* the first-turn prompt /conversation speaks for each known intent
IntentPrompt == [
    book_ticket |-> Text("You want to book a ticket. Which class would you prefer, Sleeper or AC? Press 1 for AC and 2 for Sleeper, or say your choice."),
    check_pnr |-> Text("Please tell me your ten digit P N R number."),
    cancel_ticket |-> Text("Your ticket cancellation request has been received. Refunds take five to seven days."),
    fare_enquiry |-> Text("Train fare enquiry. Please tell me your train number."),
    tatkal_info |-> Text("Tatkal booking opens one day in advance: 10 AM for AC and 11 AM for non-AC classes."),
    talk_agent |-> Text("Connecting you to a support agent."),
    special_assistance |-> Text("Our special assistance team will help you shortly. Please hold."),
    train_live_status |-> Text("Please tell me your train number to check live running status."),
    platform_locator |-> Text("Please tell me your train number to locate the platform.")
]

\* the number dialled when SUPPORT_PHONE_NUMBER is unset
FallbackAgentNumber == "+911234567890"

-----------------------------------------------------------------------------
(* The utterances the handlers and the classifier are run on: those of    *)
(* unit_test.py and e2e_test.py, and ones that trigger several rules.      *)

T_book_ticket == <<"b","o","o","k"," ","t","i","c","k","e","t">>

T_AC == <<"A","C">>

T_tomorrow == <<"t","o","m","o","r","r","o","w">>

T_thank_you == <<"t","h","a","n","k"," ","y","o","u">>

T_sleeper == <<"s","l","e","e","p","e","r">>

T_15_November == <<"1","5"," ","N","o","v","e","m","b","e","r">>

T_check_pnr == <<"c","h","e","c","k"," ","p","n","r">>

T_cancel_ticket == <<"c","a","n","c","e","l"," ","t","i","c","k","e","t">>

T_bye == <<"b","y","e">>

T_thanks == <<"t","h","a","n","k","s">>

T_no == <<"n","o">>

T_goodbye == <<"g","o","o","d","b","y","e">>

T_asdfghjk_qwert == <<"a","s","d","f","g","h","j","k"," ","q","w","e","r","t">>

T_no_cancel == <<"n","o"," ","c","a","n","c","e","l">>

T_ABC1234567 == <<"A","B","C","1","2","3","4","5","6","7">>

T_customer_care == <<"c","u","s","t","o","m","e","r"," ","c","a","r","e">>

T_I_want_to_book_a_ticket == <<"I"," ","w","a","n","t"," ","t","o"," ","b",
    "o","o","k"," ","a"," ","t","i","c","k","e","t">>

T_check_my_PNR_status == <<"c","h","e","c","k"," ","m","y"," ","P","N","R",
    " ","s","t","a","t","u","s">>

T_cancel_my_reservation == <<"c","a","n","c","e","l"," ","m","y"," ","r","e",
    "s","e","r","v","a","t","i","o","n">>

T_what_is_the_fare == <<"w","h","a","t"," ","i","s"," ","t","h","e"," ","f",
    "a","r","e">>

T_tatkal_details_please == <<"t","a","t","k","a","l"," ","d","e","t","a","i",
    "l","s"," ","p","l","e","a","s","e">>

T_connect_me_to_customer_care == <<"c","o","n","n","e","c","t"," ","m","e",
    " ","t","o"," ","c","u","s","t","o","m","e","r"," ","c","a","r","e">>

T_I_need_assistance == <<"I"," ","n","e","e","d"," ","a","s","s","i","s","t",
    "a","n","c","e">>

T_where_is_the_train_running_now == <<"w","h","e","r","e"," ","i","s"," ","t",
    "h","e"," ","t","r","a","i","n"," ","r","u","n","n","i","n","g"," ","n",
    "o","w">>

T_which_platform_for_my_train == <<"w","h","i","c","h"," ","p","l","a","t",
    "f","o","r","m"," ","f","o","r"," ","m","y"," ","t","r","a","i","n">>

T_completely_random_text == <<"c","o","m","p","l","e","t","e","l","y"," ","r",
    "a","n","d","o","m"," ","t","e","x","t">>

T_live_status == <<"l","i","v","e"," ","s","t","a","t","u","s">>

T_platform_help == <<"p","l","a","t","f","o","r","m"," ","h","e","l","p">>

T_how_much_refund == <<"h","o","w"," ","m","u","c","h"," ","r","e","f","u",
    "n","d">>

T_booking == <<"b","o","o","k","i","n","g">>

T_pnr_ticket_refund == <<"p","n","r"," ","t","i","c","k","e","t"," ","r","e",
    "f","u","n","d">>

T_Book_A_Ticket_padded == <<" "," ","B","o","o","k"," ","A"," ","T","i","c",
    "k","e","t"," "," ">>

T_7_padded == <<" ","7"," ">>

\* what a caller says during a call
SpeechTexts ==
    {T_book_ticket, T_AC, T_tomorrow, T_thank_you, T_sleeper,
     T_15_November, T_check_pnr, T_cancel_ticket, T_bye, T_thanks, T_no,
     T_goodbye, T_asdfghjk_qwert, T_no_cancel, T_ABC1234567,
     T_customer_care}

\* the longest run of keypad digits a caller enters
MaxKeyDigits == 11

\* the keypad entry 1234567890123... of n digits
DigitRun(n) == [i \in 1..n |-> ToString(i % 10)]

\* len(user_text) == 10 of the PNR test
PnrLength == 10

\* what a caller keys in: each single digit, and the runs of digits around the
\* length of a PNR, up to MaxKeyDigits
KeyTexts ==
    {<<d>> : d \in DigitChars} \cup {DigitRun(n) : n \in (PnrLength - 1)..MaxKeyDigits}

\* further texts for detect_intent alone
ClassifyTexts ==
    {<<>>, T_I_want_to_book_a_ticket, T_check_my_PNR_status,
     T_cancel_my_reservation, T_what_is_the_fare, T_tatkal_details_please,
     T_connect_me_to_customer_care, T_I_need_assistance,
     T_where_is_the_train_running_now, T_which_platform_for_my_train,
     T_completely_random_text, T_live_status, T_platform_help,
     T_how_much_refund, T_booking, T_pnr_ticket_refund,
     T_Book_A_Ticket_padded, T_7_padded}

\* further texts for next_step alone: the replies of its unit tests, and replies
\* that fit several branches of the booking follow-up, or none
T_blah_blah == <<"b","l","a","h"," ","b","l","a","h">>

T_question_marks == <<"?","?">>

T_nonsense_words == <<"n","o","n","s","e","n","s","e"," ","w","o","r","d","s">>

T_sleeper_AC == <<"s","l","e","e","p","e","r"," ","A","C">>

T_tomorrow_sleeper == <<"t","o","m","o","r","r","o","w"," ","s","l","e","e","p","e","r">>

T_AC_today == <<"A","C"," ","t","o","d","a","y">>

T_back_tomorrow == <<"b","a","c","k"," ","t","o","m","o","r","r","o","w">>

T_on_5 == <<"o","n"," ","5">>

T_3_pm == <<"3"," ","p","m">>

FollowUpTexts ==
    {T_blah_blah, T_question_marks, T_nonsense_words, T_sleeper_AC, T_tomorrow_sleeper,
     T_AC_today, T_back_tomorrow, T_on_5, T_3_pm}

-----------------------------------------------------------------------------
(* The requests, and what the oracle may do.                               *)

\* the call of the dialogue specification
CallIds == {"e2e001"}

\* two calls in progress at once
ConcurrentCallIds == {"e2e001", "e2e002"}

\* the form Twilio posts: a transcript, keypad digits, or neither
Speech(c, text) == [CallSid |-> c, SpeechResult |-> text, Digits |-> <<>>]

Keys(c, digits) == [CallSid |-> c, SpeechResult |-> <<>>, Digits |-> digits]

Forms(c) ==
    {Speech(c, x) : x \in SpeechTexts} \cup {Keys(c, d) : d \in KeyTexts}
    \cup {Speech(c, <<>>)}
    \cup {[CallSid |-> c, SpeechResult |-> T_AC, Digits |-> <<"2">>]}

\* the oracle is not asked
NotAsked == [raises |-> FALSE, text |-> <<>>]

\* oracle behaviours during a call: a failure, and answers inside the set (one
\* padded with white space)
DialogueReplies ==
    {OracleRaises, OracleSays(IntentChars.talk_agent),
     OracleSays(<<" ">> \o IntentChars.book_ticket \o <<"\n">>)}

\* oracle behaviours for detect_intent alone: also every intent, "unknown", an
\* empty answer, an answer outside the set and one in the wrong case
ClassifyReplies ==
    DialogueReplies \cup {OracleSays(IntentChars[v]) : v \in valid_intents}
    \cup {OracleSays(<<>>), OracleSays(<<"m","a","y","b","e">>),
          OracleSays(<<"B","o","o","k","_","T","i","c","k","e","t">>)}

\* every text of the model
AllTexts == SpeechTexts \cup KeyTexts \cup ClassifyTexts \cup FollowUpTexts

\* the environments: nothing configured (as in the tests); everything
\* configured; only the Twilio account configured
Environments ==
    {[GEMINI_API_KEY |-> FALSE, SUPPORT_PHONE_NUMBER |-> "", BASE_WEBHOOK_URL |-> "",
      TWILIO_PHONE_NUMBER |-> "", client |-> FALSE],
     [GEMINI_API_KEY |-> TRUE, SUPPORT_PHONE_NUMBER |-> "+919876543210",
      BASE_WEBHOOK_URL |-> "https://ivr.example.com",
      TWILIO_PHONE_NUMBER |-> "+15005550006", client |-> TRUE],
     [GEMINI_API_KEY |-> FALSE, SUPPORT_PHONE_NUMBER |-> "", BASE_WEBHOOK_URL |-> "",
      TWILIO_PHONE_NUMBER |-> "+15005550006", client |-> TRUE]}

-----------------------------------------------------------------------------
(* next_step: the follow-up handler.                                       *)

\* the words of the goodbye test of next_step
EndWords == {<<"t","h","a","n","k"," ","y","o","u">>,
             <<"t","h","a","n","k","s">>,
             <<"b","y","e">>,
             <<"n","o">>,
             <<"g","o","o","d","b","y","e">>}

W_ac == <<"a","c">>

W_sleeper == <<"s","l","e","e","p","e","r">>

W_tomorrow == <<"t","o","m","o","r","r","o","w">>

W_today == <<"t","o","d","a","y">>

\* the context dicts' last_intent values
LastIntents == Range(KnownIntents) \cup {None}

\* follow_up forgetting the intent when it has no follow-up for it
follow_up_resets_on_fallback(last_intent, user_text) ==
    IF last_intent = "book_ticket"
    THEN IF Contains(W_ac, user_text) \/ user_text = <<"1">> \/ user_text = W_ac
         THEN [assign |-> <<"booking_class", "AC">>,
               response_text |-> ACSelectedText]
         ELSE IF Contains(W_sleeper, user_text) \/ user_text = <<"2">>
                 \/ user_text = W_sleeper
         THEN [assign |-> <<"booking_class", "Sleeper">>,
               response_text |-> SleeperSelectedText]
         ELSE IF Contains(W_tomorrow, user_text) \/ Contains(W_today, user_text)
                 \/ SearchDayWord(user_text)
         THEN [assign |-> <<"booking_date", user_text>>,
               response_text |-> BookingDateText(user_text)]
         ELSE [assign |-> <<>>, response_text |-> SpecifyClassText]
    ELSE IF last_intent = "check_pnr"
    THEN IF IsDigit(user_text) /\ Len(user_text) = PnrLength
         THEN [assign |-> <<>>, response_text |-> PnrConfirmedText(user_text)]
         ELSE [assign |-> <<>>, response_text |-> PnrRepromptText]
    ELSE IF last_intent = "train_live_status"
    THEN [assign |-> <<>>, response_text |-> LiveStatusText(user_text)]
    ELSE IF last_intent = "platform_locator"
    THEN [assign |-> <<>>, response_text |-> PlatformText(user_text)]
    ELSE [assign |-> <<"last_intent", None>>, response_text |-> FallbackText]

\* follow_up noting a travel date whatever the stored intent
follow_up_date_anywhere(last_intent, user_text) ==
    IF last_intent = "book_ticket"
    THEN IF Contains(W_ac, user_text) \/ user_text = <<"1">> \/ user_text = W_ac
         THEN [assign |-> <<"booking_class", "AC">>,
               response_text |-> ACSelectedText]
         ELSE IF Contains(W_sleeper, user_text) \/ user_text = <<"2">>
                 \/ user_text = W_sleeper
         THEN [assign |-> <<"booking_class", "Sleeper">>,
               response_text |-> SleeperSelectedText]
         ELSE IF Contains(W_tomorrow, user_text) \/ Contains(W_today, user_text)
                 \/ SearchDayWord(user_text)
         THEN [assign |-> <<"booking_date", user_text>>,
               response_text |-> BookingDateText(user_text)]
         ELSE [assign |-> <<>>, response_text |-> SpecifyClassText]
    ELSE IF Contains(W_tomorrow, user_text) \/ Contains(W_today, user_text)
    THEN [assign |-> <<"booking_date", user_text>>,
          response_text |-> BookingDateText(user_text)]
    ELSE IF last_intent = "check_pnr"
    THEN IF IsDigit(user_text) /\ Len(user_text) = PnrLength
         THEN [assign |-> <<>>, response_text |-> PnrConfirmedText(user_text)]
         ELSE [assign |-> <<>>, response_text |-> PnrRepromptText]
    ELSE IF last_intent = "train_live_status"
    THEN [assign |-> <<>>, response_text |-> LiveStatusText(user_text)]
    ELSE IF last_intent = "platform_locator"
    THEN [assign |-> <<>>, response_text |-> PlatformText(user_text)]
    ELSE [assign |-> <<>>, response_text |-> FallbackText]

\* follow_up trying the date before the class
follow_up_date_first(last_intent, user_text) ==
    IF last_intent = "book_ticket"
    THEN IF Contains(W_tomorrow, user_text) \/ Contains(W_today, user_text)
            \/ SearchDayWord(user_text)
         THEN [assign |-> <<"booking_date", user_text>>,
               response_text |-> BookingDateText(user_text)]
         ELSE IF Contains(W_ac, user_text) \/ user_text = <<"1">>
         THEN [assign |-> <<"booking_class", "AC">>,
               response_text |-> ACSelectedText]
         ELSE IF Contains(W_sleeper, user_text) \/ user_text = <<"2">>
         THEN [assign |-> <<"booking_class", "Sleeper">>,
               response_text |-> SleeperSelectedText]
         ELSE [assign |-> <<>>, response_text |-> SpecifyClassText]
    ELSE IF last_intent = "check_pnr"
    THEN IF IsDigit(user_text) /\ Len(user_text) = PnrLength
         THEN [assign |-> <<>>, response_text |-> PnrConfirmedText(user_text)]
         ELSE [assign |-> <<>>, response_text |-> PnrRepromptText]
    ELSE IF last_intent = "train_live_status"
    THEN [assign |-> <<>>, response_text |-> LiveStatusText(user_text)]
    ELSE IF last_intent = "platform_locator"
    THEN [assign |-> <<>>, response_text |-> PlatformText(user_text)]
    ELSE [assign |-> <<>>, response_text |-> FallbackText]

\* lines 200-228 of next_step: the branch taken for last_intent and the
\* lowercased text, as the assignment it makes to the context (<<key, value>>,
\* or <<>> for none) and the text it speaks
follow_up(last_intent, user_text) ==
    IF last_intent = "book_ticket"
    THEN IF Contains(W_ac, user_text) \/ user_text = <<"1">> \/ user_text = W_ac
         THEN [assign |-> <<"booking_class", "AC">>,
               response_text |-> ACSelectedText]
         ELSE IF Contains(W_sleeper, user_text) \/ user_text = <<"2">>
                 \/ user_text = W_sleeper
         THEN [assign |-> <<"booking_class", "Sleeper">>,
               response_text |-> SleeperSelectedText]
         ELSE IF Contains(W_tomorrow, user_text) \/ Contains(W_today, user_text)
                 \/ SearchDayWord(user_text)
         THEN [assign |-> <<"booking_date", user_text>>,
               response_text |-> BookingDateText(user_text)]
         ELSE [assign |-> <<>>, response_text |-> SpecifyClassText]
    ELSE IF last_intent = "check_pnr"
    THEN IF IsDigit(user_text) /\ Len(user_text) = PnrLength
         THEN [assign |-> <<>>, response_text |-> PnrConfirmedText(user_text)]
         ELSE [assign |-> <<>>, response_text |-> PnrRepromptText]
    ELSE IF last_intent = "train_live_status"
    THEN [assign |-> <<>>, response_text |-> LiveStatusText(user_text)]
    ELSE IF last_intent = "platform_locator"
    THEN [assign |-> <<>>, response_text |-> PlatformText(user_text)]
    ELSE [assign |-> <<>>, response_text |-> FallbackText]

\* says_goodbye with "no" left out of the words
says_goodbye_without_no(user_text) == SearchWords(EndWords \ {<<"n","o">>}, user_text)

\* line 191 of next_step: the goodbye test on the lowercased text
says_goodbye(user_text) == SearchWords(EndWords, user_text)

\* The text-only computations above, tabulated once over the texts of the
\* model (a table lookup instead of a re-evaluation in every state).
LowerTable == [x \in AllTexts |-> Lower(x)]

GoodbyeTable == [x \in AllTexts |-> says_goodbye(Lower(x))]

FollowUpTable == [x \in AllTexts |-> [li \in LastIntents |-> follow_up(li, Lower(x))]]

DetectTable ==
    [x \in AllTexts |-> [key \in BOOLEAN |-> [reply \in ClassifyReplies |->
        detect_intent_run(x, key, reply)]]]

\* the branch of follow_up for a stored last_intent and a text
FollowUp(last_intent, text) ==
    IF last_intent \in LastIntents
    THEN FollowUpTable[text][last_intent]
    ELSE follow_up(last_intent, LowerTable[text])

\* next_step saying goodbye without clearing the context
next_step_keeps_context(store, call_id, text) ==
    LET context == DictGet(store, call_id, [k \in {"last_intent"} |-> None])
        last_intent == DictGet(context, "last_intent", None)
    IN  IF GoodbyeTable[text]
        THEN [session_context |-> store,
              response |-> XmlResponse(<<Say(ClosingText), Hangup>>)]
        ELSE LET step == FollowUp(last_intent, text)
                 updated == IF step.assign = <<>> THEN context
                            ELSE DictSet(context, step.assign[1], step.assign[2])
             IN  [session_context |-> DictSet(store, call_id, updated),
                  response |-> XmlResponse(<<Gather(step.response_text)>>)]

\* next_step opening a gather after the hangup
next_step_listens_after_hangup(store, call_id, text) ==
    LET context == DictGet(store, call_id, [k \in {"last_intent"} |-> None])
        last_intent == DictGet(context, "last_intent", None)
    IN  IF GoodbyeTable[text]
        THEN [session_context |-> DictPop(store, call_id),
              response |-> XmlResponse(<<Say(ClosingText), Hangup,
                                         Gather(AnythingElseText)>>)]
        ELSE LET step == FollowUp(last_intent, text)
                 updated == IF step.assign = <<>> THEN context
                            ELSE DictSet(context, step.assign[1], step.assign[2])
             IN  [session_context |-> DictSet(store, call_id, updated),
                  response |-> XmlResponse(<<Gather(step.response_text)>>)]

\* next_step(call_id, user_text) on the store: the store it leaves and its response
next_step(store, call_id, text) ==
    LET context == DictGet(store, call_id, [k \in {"last_intent"} |-> None])
        last_intent == DictGet(context, "last_intent", None)
    IN  IF GoodbyeTable[text]
        THEN [session_context |-> DictPop(store, call_id),
              response |-> XmlResponse(<<Say(ClosingText), Hangup>>)]
        ELSE LET step == FollowUp(last_intent, text)
                 updated == IF step.assign = <<>> THEN context
                            ELSE DictSet(context, step.assign[1], step.assign[2])
             IN  [session_context |-> DictSet(store, call_id, updated),
                  response |-> XmlResponse(<<Gather(step.response_text)>>)]

-----------------------------------------------------------------------------
(* The request handlers.                                                   *)

\* speech_result or digits or ""
UserText(form) ==
    IF form.SpeechResult # <<>> THEN form.SpeechResult
    ELSE IF form.Digits # <<>> THEN form.Digits
    ELSE <<>>

\* /voice: the greeting, then a redirect back to /voice on silence
voice_start == XmlResponse(<<GatherOneDigit(GreetingText), Redirect(webhook("/voice"))>>)

\* /conversation storing the intent whether known or not
conversation_stores_unknown(store, support, form, intent) ==
    LET call_id == form.CallSid
        user_text == UserText(form)
        context == DictGet(store, call_id, EmptyDict)
        stored == DictSet(store, call_id, DictSet(context, "last_intent", intent))
    IN  IF intent = "talk_agent"
        THEN [session_context |-> stored,
              response |-> XmlResponse(<<Say(IntentPrompt[intent]),
                                         Dial(IF support # "" THEN support
                                              ELSE FallbackAgentNumber)>>)]
        ELSE IF intent \in Range(KnownIntents)
        THEN [session_context |-> stored,
              response |-> XmlResponse(<<Say(IntentPrompt[intent]),
                                         Gather(AnythingElseText)>>)]
        ELSE next_step(stored, call_id, user_text)

\* /conversation starting a new call's context from another call's
conversation_inherits_context(store, support, form, intent) ==
    LET call_id == form.CallSid
        user_text == UserText(form)
        context == DictGet(store, call_id,
                           IF DOMAIN store = {} THEN EmptyDict
                           ELSE store[CHOOSE d \in DOMAIN store : TRUE])
        stored == IF intent # "unknown"
                  THEN DictSet(store, call_id, DictSet(context, "last_intent", intent))
                  ELSE store
    IN  IF intent = "talk_agent"
        THEN [session_context |-> stored,
              response |-> XmlResponse(<<Say(IntentPrompt[intent]),
                                         Dial(IF support # "" THEN support
                                              ELSE FallbackAgentNumber)>>)]
        ELSE IF intent \in Range(KnownIntents)
        THEN [session_context |-> stored,
              response |-> XmlResponse(<<Say(IntentPrompt[intent]),
                                         Gather(AnythingElseText)>>)]
        ELSE next_step(stored, call_id, user_text)

\* /conversation answering a known intent without storing it
conversation_forgets_intent(store, support, form, intent) ==
    LET call_id == form.CallSid
        user_text == UserText(form)
    IN  IF intent = "talk_agent"
        THEN [session_context |-> store,
              response |-> XmlResponse(<<Say(IntentPrompt[intent]),
                                         Dial(IF support # "" THEN support
                                              ELSE FallbackAgentNumber)>>)]
        ELSE IF intent \in Range(KnownIntents)
        THEN [session_context |-> store,
              response |-> XmlResponse(<<Say(IntentPrompt[intent]),
                                         Gather(AnythingElseText)>>)]
        ELSE next_step(store, call_id, user_text)

\* /conversation dropping the call's context when it transfers the call
conversation_drops_on_transfer(store, support, form, intent) ==
    LET call_id == form.CallSid
        user_text == UserText(form)
        context == DictGet(store, call_id, EmptyDict)
        stored == IF intent # "unknown"
                  THEN DictSet(store, call_id, DictSet(context, "last_intent", intent))
                  ELSE store
    IN  IF intent = "talk_agent"
        THEN [session_context |-> DictPop(store, call_id),
              response |-> XmlResponse(<<Say(IntentPrompt[intent]),
                                         Dial(IF support # "" THEN support
                                              ELSE FallbackAgentNumber)>>)]
        ELSE IF intent \in Range(KnownIntents)
        THEN [session_context |-> stored,
              response |-> XmlResponse(<<Say(IntentPrompt[intent]),
                                         Gather(AnythingElseText)>>)]
        ELSE next_step(stored, call_id, user_text)

\* /conversation dialling the fallback number whatever the environment says
conversation_dials_fallback(store, support, form, intent) ==
    LET call_id == form.CallSid
        user_text == UserText(form)
        context == DictGet(store, call_id, EmptyDict)
        stored == IF intent # "unknown"
                  THEN DictSet(store, call_id, DictSet(context, "last_intent", intent))
                  ELSE store
    IN  IF intent = "talk_agent"
        THEN [session_context |-> stored,
              response |-> XmlResponse(<<Say(IntentPrompt[intent]),
                                         Dial(FallbackAgentNumber)>>)]
        ELSE IF intent \in Range(KnownIntents)
        THEN [session_context |-> stored,
              response |-> XmlResponse(<<Say(IntentPrompt[intent]),
                                         Gather(AnythingElseText)>>)]
        ELSE next_step(stored, call_id, user_text)

\* /conversation on the store: intent is what detect_intent returned for the
\* form's text, support is SUPPORT_PHONE_NUMBER
conversation(store, support, form, intent) ==
    LET call_id == form.CallSid
        user_text == UserText(form)
        context == DictGet(store, call_id, EmptyDict)
        stored == IF intent # "unknown"
                  THEN DictSet(store, call_id, DictSet(context, "last_intent", intent))
                  ELSE store
    IN  IF intent = "talk_agent"
        THEN [session_context |-> stored,
              response |-> XmlResponse(<<Say(IntentPrompt[intent]),
                                         Dial(IF support # "" THEN support
                                              ELSE FallbackAgentNumber)>>)]
        ELSE IF intent \in Range(KnownIntents)
        THEN [session_context |-> stored,
              response |-> XmlResponse(<<Say(IntentPrompt[intent]),
                                         Gather(AnythingElseText)>>)]
        ELSE next_step(stored, call_id, user_text)

\* /call/end removing the intent but leaving the slots in the store
call_end_keeps_slots(store, form) ==
    [session_context |->
         IF form.CallSid \in DOMAIN store
         THEN DictSet(store, form.CallSid, DictPop(store[form.CallSid], "last_intent"))
         ELSE store,
     response |-> EmptyResponse]

\* /call/end emptying the whole store
call_end_clears_store(store, form) ==
    [session_context |-> EmptyDict, response |-> EmptyResponse]

\* /call/end on the store
call_end(store, form) ==
    [session_context |-> DictPop(store, form.CallSid), response |-> EmptyResponse]

\* a JSON body returned by /call/start
JsonResponse(body) == [status_code |-> 200, json |-> body]

\* the provider rejects client.calls.create
CreateRaises == [raises |-> TRUE, status |-> "", sid |-> ""]

\* the provider accepts client.calls.create
CreateQueued == [raises |-> FALSE, status |-> "queued", sid |-> "CA0001"]

\* no call handed to the provider
NoCall == <<>>

\* /call/start: the JSON it returns and the call it hands to the provider;
\* has_client is client is not None, outcome is what calls.create does
start_real_call(payload, has_client, twilio_number, base, outcome) ==
    LET to_number == DictGet(payload, "to", "")
    IN  IF to_number = ""
        THEN [response |-> JsonResponse([error |-> "Missing 'to' number"]),
              call |-> NoCall]
        ELSE IF ~has_client \/ twilio_number = ""
        THEN [response |-> JsonResponse([error |-> "Twilio not configured on server"]),
              call |-> NoCall]
        ELSE IF base = ""
        THEN [response |-> JsonResponse([error |-> "BASE_WEBHOOK_URL not configured"]),
              call |-> NoCall]
        ELSE LET call == [to |-> to_number, from_ |-> twilio_number,
                          url |-> <<base, "/voice">>]
             IN  IF outcome.raises
                 THEN [response |-> JsonResponse([error |-> "str(e)"]), call |-> call]
                 ELSE [response |-> JsonResponse([status |-> outcome.status,
                                                  sid |-> outcome.sid,
                                                  to |-> to_number]),
                       call |-> call]

-----------------------------------------------------------------------------
(* The state machine.                                                      *)

NoDetect == [intent |-> "unknown", oracle |-> FALSE, rules |-> FALSE]

\* the oracle behaviours that tell requests with this form apart: all of them
\* when detect_intent asks the oracle, one when it does not
RepliesFor(form) ==
    IF DetectTable[UserText(form)][GEMINI_API_KEY][OracleRaises].oracle
    THEN DialogueReplies
    ELSE {OracleRaises}

\* the reply the request consumed
Consumed(run, reply) == IF run.oracle THEN reply ELSE NotAsked

\* The booking scenario of test_e2e_full_booking_flow, as the number of its
\* steps the requests so far have followed, the oracle deciding nothing:
\* /voice, "book ticket", "AC", "tomorrow", "thank you", /call/end.
ScenarioStep(n, op, form, run) ==
    LET said(x) == /\ op = "conversation"
                   /\ form.SpeechResult = x
                   /\ run.rules
    IN  IF op = "voice" THEN 1
        ELSE IF n = 1 /\ said(T_book_ticket) THEN 2
        ELSE IF n = 2 /\ said(T_AC) THEN 3
        ELSE IF n = 3 /\ said(T_tomorrow) THEN 4
        ELSE IF n = 4 /\ said(T_thank_you) THEN 5
        ELSE IF n = 5 /\ op = "end" THEN 6
        ELSE 0

\* the phase of a call after a turn with this response: closed once the caller
\* was told goodbye, active otherwise
PhaseAfterTurn(resp) ==
    IF \E i \in DOMAIN resp.twiml : resp.twiml[i] = Hangup THEN "closed" ELSE "active"

\* whether the context of call c, as a request leaves it in the store, has had
\* last_intent = book_ticket since it was created
BookedAfter(was, store, c) ==
    /\ c \in DOMAIN store
    /\ was \/ DictGet(store[c], "last_intent", None) = "book_ticket"

Init ==
    /\ session_context = EmptyDict
    /\ \E e \in Environments :
           /\ GEMINI_API_KEY = e.GEMINI_API_KEY
           /\ SUPPORT_PHONE_NUMBER = e.SUPPORT_PHONE_NUMBER
           /\ BASE_WEBHOOK_URL = e.BASE_WEBHOOK_URL
           /\ TWILIO_PHONE_NUMBER = e.TWILIO_PHONE_NUMBER
           /\ client = e.client
    /\ response = EmptyResponse
    /\ last = [op |-> "none", form |-> Speech("", <<>>), reply |-> NotAsked,
               detect |-> NoDetect, before |-> EmptyDict, phase |-> "new",
               alone |-> EmptyResponse]
    /\ scenario = 0
    /\ alone = [c \in ConcurrentCallIds |-> EmptyDict]
    /\ phase = [c \in ConcurrentCallIds |-> "new"]
    /\ booked = [c \in ConcurrentCallIds |-> FALSE]

\* POST /voice
VoiceStart(c) ==
    /\ response' = voice_start
    /\ last' = [op |-> "voice", form |-> Speech(c, <<>>), reply |-> NotAsked,
                detect |-> NoDetect, before |-> session_context,
                phase |-> phase[c], alone |-> voice_start]
    /\ scenario' = ScenarioStep(scenario, "voice", Speech(c, <<>>), NoDetect)
    /\ UNCHANGED <<session_context, env, alone, phase, booked>>

\* POST /conversation
Conversation(form, reply) ==
    LET c == form.CallSid
        run == DetectTable[UserText(form)][GEMINI_API_KEY][reply]
        out == conversation(session_context, SUPPORT_PHONE_NUMBER, form, run.intent)
        solo == conversation(alone[c], SUPPORT_PHONE_NUMBER, form, run.intent)
    IN  /\ session_context' = out.session_context
        /\ response' = out.response
        /\ last' = [op |-> "conversation", form |-> form,
                    reply |-> Consumed(run, reply), detect |-> run,
                    before |-> session_context, phase |-> phase[c],
                    alone |-> solo.response]
        /\ scenario' = ScenarioStep(scenario, "conversation", form, run)
        /\ alone' = [alone EXCEPT ![c] = solo.session_context]
        /\ phase' = [phase EXCEPT ![c] = PhaseAfterTurn(out.response)]
        /\ booked' = [booked EXCEPT ![c] = BookedAfter(booked[c], out.session_context, c)]
        /\ UNCHANGED env

\* POST /call/end
CallEnd(c) ==
    LET out == call_end(session_context, Speech(c, <<>>))
        solo == call_end(alone[c], Speech(c, <<>>))
    IN  /\ session_context' = out.session_context
        /\ response' = out.response
        /\ last' = [op |-> "end", form |-> Speech(c, <<>>), reply |-> NotAsked,
                    detect |-> NoDetect, before |-> session_context,
                    phase |-> phase[c], alone |-> solo.response]
        /\ scenario' = ScenarioStep(scenario, "end", Speech(c, <<>>), NoDetect)
        /\ alone' = [alone EXCEPT ![c] = solo.session_context]
        /\ phase' = [phase EXCEPT ![c] = "ended"]
        /\ booked' = [booked EXCEPT ![c] = BookedAfter(booked[c], out.session_context, c)]
        /\ UNCHANGED env

\* the JSON bodies posted to /call/start: with a destination, and without
Payloads == {("to" :> "+919000000001"), EmptyDict}

\* what the provider does with calls.create
CreateOutcomes == {CreateQueued, CreateRaises}

\* POST /call/start
StartRealCall(payload, outcome) ==
    LET out == start_real_call(payload, client, TWILIO_PHONE_NUMBER, BASE_WEBHOOK_URL,
                               outcome)
    IN  /\ response' = out.response
        /\ last' = [op |-> "start", form |-> Speech("", <<>>), reply |-> NotAsked,
                    detect |-> NoDetect, before |-> session_context,
                    phase |-> "new", alone |-> out.response,
                    payload |-> payload, call |-> out.call]
        /\ scenario' = ScenarioStep(scenario, "start", Speech("", <<>>), NoDetect)
        /\ UNCHANGED <<session_context, env, alone, phase, booked>>

\* the provider's outcomes that tell requests with this payload apart
OutcomesFor(payload) ==
    IF start_real_call(payload, client, TWILIO_PHONE_NUMBER, BASE_WEBHOOK_URL,
                       CreateQueued).call # NoCall
    THEN CreateOutcomes
    ELSE {CreateQueued}

Next ==
    \/ \E c \in CallIds :
        \/ VoiceStart(c)
        \/ \E form \in Forms(c) : \E reply \in RepliesFor(form) :
               Conversation(form, reply)
        \/ CallEnd(c)
    \/ \E payload \in Payloads : \E outcome \in OutcomesFor(payload) :
           StartRealCall(payload, outcome)

Spec == Init /\ [][Next]_vars

-----------------------------------------------------------------------------
(* Several calls at once.  The handlers are coroutines that never await    *)
(* between reading and writing session_context (the only await is the      *)
(* request's form, before either), so each request is one atomic step and  *)
(* the requests of different calls interleave in any order.                *)

\* what the callers of the concurrent calls say and key in
ConcurrentForms(c) ==
    {Speech(c, x) : x \in {T_book_ticket, T_AC, T_tomorrow, T_bye, T_asdfghjk_qwert,
                           T_customer_care}}
    \cup {Keys(c, <<"2">>), Keys(c, DigitRun(PnrLength))}

NextCalls ==
    \/ \E c \in ConcurrentCallIds :
        \/ VoiceStart(c)
        \/ \E form \in ConcurrentForms(c) : \E reply \in RepliesFor(form) :
               Conversation(form, reply)
        \/ CallEnd(c)
    \/ \E payload \in Payloads : \E outcome \in OutcomesFor(payload) :
           StartRealCall(payload, outcome)

SpecCalls == Init /\ [][NextCalls]_vars

-----------------------------------------------------------------------------
(* detect_intent alone, on every text and every oracle behaviour.          *)

InitClassify ==
    /\ session_context = EmptyDict
    /\ GEMINI_API_KEY \in BOOLEAN
    /\ SUPPORT_PHONE_NUMBER = ""
    /\ BASE_WEBHOOK_URL = ""
    /\ TWILIO_PHONE_NUMBER = ""
    /\ client = FALSE
    /\ response = EmptyResponse
    /\ \E text \in AllTexts, reply \in ClassifyReplies :
           last = [op |-> "input", form |-> Speech("", text), reply |-> reply,
                   detect |-> NoDetect, before |-> EmptyDict, phase |-> "new",
                   alone |-> EmptyResponse]
    /\ scenario = 0
    /\ alone = [c \in ConcurrentCallIds |-> EmptyDict]
    /\ phase = [c \in ConcurrentCallIds |-> "new"]
    /\ booked = [c \in ConcurrentCallIds |-> FALSE]

\* detect_intent(text) with the oracle behaving as last.reply says
Classify ==
    /\ last.op = "input"
    /\ last' = [last EXCEPT !.op = "detect_intent",
                            !.detect = DetectTable[last.form.SpeechResult]
                                                  [GEMINI_API_KEY][last.reply]]
    /\ UNCHANGED <<session_context, env, response, scenario, alone, phase, booked>>

NextClassify == Classify

SpecClassify == InitClassify /\ [][NextClassify]_vars

-----------------------------------------------------------------------------
(* next_step alone, called as its unit tests call it: on a store holding   *)
(* one call's context, with any text.                                      *)

\* the call of the unit tests
UnitCallId == "u1"

\* the contexts the handlers leave in the store: the one next_step saves for a
\* call without intent, and a last_intent with the slots collected so far
StoredContexts ==
    {("last_intent" :> None)}
    \cup {("last_intent" :> li) @@ class @@ date :
             li \in Range(KnownIntents),
             class \in {EmptyDict, "booking_class" :> "AC", "booking_class" :> "Sleeper"},
             date \in {EmptyDict, "booking_date" :> Lower(T_tomorrow),
                       "booking_date" :> Lower(T_15_November)}}

\* what the callers of next_step pass as user_text
NextStepTexts == SpeechTexts \cup KeyTexts \cup FollowUpTexts \cup {<<>>}

InitNextStep ==
    /\ session_context \in
           {EmptyDict} \cup {UnitCallId :> context : context \in StoredContexts}
    /\ GEMINI_API_KEY = FALSE
    /\ SUPPORT_PHONE_NUMBER = ""
    /\ BASE_WEBHOOK_URL = ""
    /\ TWILIO_PHONE_NUMBER = ""
    /\ client = FALSE
    /\ response = EmptyResponse
    /\ \E text \in NextStepTexts :
           last = [op |-> "input", form |-> Speech(UnitCallId, text), reply |-> NotAsked,
                   detect |-> NoDetect, before |-> EmptyDict, phase |-> "new",
                   alone |-> EmptyResponse]
    /\ scenario = 0
    /\ alone = [c \in ConcurrentCallIds |-> EmptyDict]
    /\ phase = [c \in ConcurrentCallIds |-> "new"]
    /\ booked = [c \in ConcurrentCallIds |-> FALSE]

\* next_step(call_id, user_text)
NextStep ==
    LET out == next_step(session_context, last.form.CallSid, last.form.SpeechResult)
    IN  /\ last.op = "input"
        /\ session_context' = out.session_context
        /\ response' = out.response
        /\ last' = [last EXCEPT !.op = "next_step", !.before = session_context,
                                !.alone = out.response]
        /\ UNCHANGED <<env, scenario, alone, phase, booked>>

NextNextStep == NextStep

SpecNextStep == InitNextStep /\ [][NextNextStep]_vars

-----------------------------------------------------------------------------
(* What the properties below read from a state: the last request, the      *)
(* context of its call before and after it.                                *)

Turn == last.op = "conversation"

CallId == last.form.CallSid

Utterance == UserText(last.form)

\* the normalized utterance of next_step
Normalized == Lower(Utterance)

\* the oracle was asked and its answer became the intent
OracleDecided == last.detect.oracle /\ ~last.detect.rules

\* the utterance contains a termination keyword, as a word
HasEndWord == SearchWords(EndWords, Normalized)

\* session_context.get(c, {}) of a store
ContextOf(store, c) == DictGet(store, c, EmptyDict)

\* the last_intent of call c in a store, None when there is no context or no key
LastIntentOf(store, c) == DictGet(ContextOf(store, c), "last_intent", None)

\* the slots of call c in a store: its context without last_intent
SlotsOf(store, c) ==
    LET context == ContextOf(store, c)
    IN  [k \in DOMAIN context \ {"last_intent"} |-> context[k]]

ContextBefore == ContextOf(last.before, CallId)

ContextAfter == ContextOf(session_context, CallId)

\* the closing prompt with the hangup directive
ClosingResponse == XmlResponse(<<Say(ClosingText), Hangup>>)

\* a prompt spoken inside a gather that keeps listening
Listening(text) == XmlResponse(<<Gather(text)>>)

-----------------------------------------------------------------------------
(* The properties.                                                         *)

\* C1: every turn whose utterance contains a termination keyword (whatever else
\* it contains, whatever the stored context) yields the closing prompt with a
\* hangup and leaves no context for the call.  Stated for the turns the oracle
\* does not decide.
C1_TerminationHasPriority ==
    (Turn /\ ~OracleDecided /\ HasEndWord) =>
        /\ response = ClosingResponse
        /\ CallId \notin DOMAIN session_context

\* C2: a turn on a call whose context has last_intent set, with an utterance
\* holding no termination keyword, leaves last_intent as it was.  Stated for the
\* turns the oracle does not decide.
C2_FollowUpKeepsLastIntent ==
    (/\ Turn
     /\ ~OracleDecided
     /\ LastIntentOf(last.before, CallId) \in Range(KnownIntents)
     /\ ~HasEndWord) =>
        LastIntentOf(session_context, CallId) = LastIntentOf(last.before, CallId)

\* C3: with last_intent = book_ticket, a turn whose utterance mentions "ac" or is
\* exactly "1" sets booking_class to AC and prompts for the travel date, one that
\* (otherwise) mentions "sleeper" or is exactly "2" sets it to Sleeper and prompts
\* for the travel date, and last_intent stays book_ticket.  Stated for the turns
\* the oracle does not decide and that hold no termination keyword.
C3_ClassChoiceThroughTurn ==
    LET ac == Contains(W_ac, Normalized) \/ Normalized = <<"1">>
        sleeper == Contains(W_sleeper, Normalized) \/ Normalized = <<"2">>
    IN  (/\ Turn
         /\ ~OracleDecided
         /\ LastIntentOf(last.before, CallId) = "book_ticket"
         /\ ~HasEndWord
         /\ ac \/ sleeper) =>
            /\ LastIntentOf(session_context, CallId) = "book_ticket"
            /\ DictGet(ContextAfter, "booking_class", None)
                   = IF ac THEN "AC" ELSE "Sleeper"
            /\ response = Listening(IF ac THEN ACSelectedText ELSE SleeperSelectedText)

\* C4: with last_intent = check_pnr and no termination keyword, a turn answers
\* with the PNR confirmation exactly when the utterance is ten digits, and with
\* the re-prompt for every other utterance, the context staying as it was.
\* Stated for the turns the oracle does not decide.
C4_PnrFollowUp ==
    (/\ Turn
     /\ ~OracleDecided
     /\ LastIntentOf(last.before, CallId) = "check_pnr"
     /\ ~HasEndWord) =>
        /\ ContextAfter = ContextBefore
        /\ response = IF IsDigit(Normalized) /\ Len(Normalized) = 10
                      THEN Listening(PnrConfirmedText(Normalized))
                      ELSE Listening(PnrRepromptText)

\* C5: the booking scenario on one call: /voice greets; "book ticket" gives the
\* book_ticket prompt and last_intent = book_ticket; "AC" gives the AC prompt and
\* booking_class = AC; "tomorrow" gives the date prompt, booking_date = "tomorrow"
\* and booking_class still AC; "thank you" gives the closing prompt with hangup
\* and removes the context; /call/end then leaves the call out of the store.
C5_BookingScenario ==
    /\ scenario = 1 =>
           response = XmlResponse(<<GatherOneDigit(GreetingText),
                                    Redirect(webhook("/voice"))>>)
    /\ scenario = 2 =>
           /\ response = XmlResponse(<<Say(IntentPrompt.book_ticket),
                                       Gather(AnythingElseText)>>)
           /\ LastIntentOf(session_context, CallId) = "book_ticket"
    /\ scenario = 3 =>
           /\ response = Listening(ACSelectedText)
           /\ LastIntentOf(session_context, CallId) = "book_ticket"
           /\ DictGet(ContextAfter, "booking_class", None) = "AC"
    /\ scenario = 4 =>
           /\ response = Listening(BookingDateText(T_tomorrow))
           /\ DictGet(ContextAfter, "booking_date", <<>>) = T_tomorrow
           /\ DictGet(ContextAfter, "booking_class", None) = "AC"
    /\ scenario = 5 =>
           /\ response = ClosingResponse
           /\ CallId \notin DOMAIN session_context
    /\ scenario = 6 =>
           /\ response = EmptyResponse
           /\ CallId \notin DOMAIN session_context

\* the scenario ran to its end, the context holding both slots when "thank you"
\* removed it
C5_Witness ==
    /\ scenario = 6
    /\ last.op = "end"
    /\ CallId \notin DOMAIN last.before

\* C6: from any context, a turn whose utterance is just a termination keyword
\* yields the closing prompt with a hangup and removes the call's context.
\* Stated for the turns the oracle does not decide.
C6_GoodbyeFromAnyContext ==
    (Turn /\ ~OracleDecided /\ Normalized \in EndWords) =>
        /\ response = ClosingResponse
        /\ CallId \notin DOMAIN session_context

\* "thanks" ended a call whose context held another intent and both booking slots
C6_Witness ==
    /\ Turn
    /\ Normalized = <<"t","h","a","n","k","s">>
    /\ LastIntentOf(last.before, CallId) = "cancel_ticket"
    /\ DOMAIN SlotsOf(last.before, CallId) = {"booking_class", "booking_date"}
    /\ CallId \notin DOMAIN session_context

\* C7: on a call with no prior intent, a turn whose utterance classifies as
\* unknown and holds no termination keyword answers with the generic fallback and
\* leaves the call with no intent and no slot; a later turn whose utterance
\* classifies as a known intent answers with that intent's first-turn prompt.
C7_UnknownFallback ==
    /\ (/\ Turn
        /\ LastIntentOf(last.before, CallId) = None
        /\ last.detect.intent = "unknown"
        /\ ~HasEndWord) =>
           /\ response = Listening(FallbackText)
           /\ LastIntentOf(session_context, CallId) = None
           /\ SlotsOf(session_context, CallId) = SlotsOf(last.before, CallId)
           /\ DOMAIN SlotsOf(session_context, CallId) = {}
    /\ (/\ Turn
        /\ CallId \in DOMAIN last.before
        /\ LastIntentOf(last.before, CallId) = None
        /\ last.detect.intent \in Range(KnownIntents)) =>
           /\ Len(response.twiml) = 2
           /\ response.twiml[1] = Say(IntentPrompt[last.detect.intent])
           /\ LastIntentOf(session_context, CallId) = last.detect.intent

\* after unknown turns had left the call without intent, "book ticket" was
\* classified by the keyword rules and answered with the book_ticket prompt
C7_Witness ==
    /\ Turn
    /\ CallId \in DOMAIN last.before
    /\ LastIntentOf(last.before, CallId) = None
    /\ Utterance = T_book_ticket
    /\ last.detect.rules
    /\ response.twiml[1] = Say(IntentPrompt.book_ticket)

\* the digit table of C8, in the claim's words
C8_Table ==
    (<<"1">> :> "book_ticket") @@ (<<"2">> :> "check_pnr") @@
    (<<"3">> :> "cancel_ticket") @@ (<<"4">> :> "fare_enquiry") @@
    (<<"5">> :> "tatkal_info") @@ (<<"6">> :> "talk_agent") @@
    (<<"7">> :> "special_assistance") @@ (<<"8">> :> "train_live_status") @@
    (<<"9">> :> "platform_locator")

\* C8: on an all-digit text detect_intent returns the table's intent for "1".."9"
\* and unknown for any other digit string, without asking the oracle and
\* without trying the keyword rules, whatever the oracle would answer.
C8_DigitsBypass ==
    LET text == last.form.SpeechResult
    IN  (last.op = "detect_intent" /\ IsDigit(text)) =>
            /\ last.detect.intent
                   = IF text \in DOMAIN C8_Table THEN C8_Table[text] ELSE "unknown"
            /\ ~last.detect.oracle
            /\ ~last.detect.rules

\* "9" was classified with the oracle configured and ready to answer talk_agent
C8_Witness ==
    /\ last.op = "detect_intent"
    /\ last.form.SpeechResult = <<"9">>
    /\ GEMINI_API_KEY
    /\ last.reply = OracleSays(IntentChars.talk_agent)
    /\ last.detect.intent = "platform_locator"

\* the order of the keyword rules, in the claim's words
C9_Order == <<"cancel_ticket", "book_ticket", "check_pnr", "fare_enquiry",
              "tatkal_info", "talk_agent", "special_assistance",
              "train_live_status", "platform_locator">>

\* the intents whose trigger words occur in a normalized text
C9_Triggered(t) ==
    {KeywordRules[k].intent :
        k \in {j \in DOMAIN KeywordRules : SearchWords(KeywordRules[j].words, t)}}

\* C9: when the oracle gives no decision on a non-digit text, detect_intent
\* returns the earliest intent, in the fixed order, among those whose trigger
\* words the text holds, and unknown when it holds none.
C9_FirstRuleWins ==
    LET t == Strip(Lower(last.form.SpeechResult))
        S == C9_Triggered(t)
    IN  (last.op = "detect_intent" /\ ~FullMatchDigits(t) /\ ~OracleDecided) =>
            IF S = {} THEN last.detect.intent = "unknown"
            ELSE \E i \in DOMAIN C9_Order :
                     /\ C9_Order[i] \in S
                     /\ \A j \in 1..(i - 1) : C9_Order[j] \notin S
                     /\ last.detect.intent = C9_Order[i]

\* "pnr ticket refund" triggers three rules and came out as cancel_ticket
C9_Witness ==
    /\ last.op = "detect_intent"
    /\ last.form.SpeechResult = T_pnr_ticket_refund
    /\ Cardinality(C9_Triggered(T_pnr_ticket_refund)) = 3
    /\ last.detect.rules
    /\ last.detect.intent = "cancel_ticket"

\* the oracle's answer, white space stripped, names one of the nine intents
C10_AnswersKnown(reply) ==
    /\ ~reply.raises
    /\ \E v \in Range(KnownIntents) : IntentChars[v] = Strip(reply.text)

\* C10: on a non-digit text detect_intent asks the oracle first (when it is
\* configured): an answer naming one of the nine intents is the result, the
\* keyword rules not tried; with the oracle unconfigured, failing, answering
\* "unknown" or answering outside the set, the result is what the keyword rules
\* give for the text, and the result is always one of the ten intents.
C10_OracleThenRules ==
    LET t == Strip(Lower(last.form.SpeechResult))
    IN  (last.op = "detect_intent" /\ ~FullMatchDigits(t)) =>
            /\ last.detect.intent \in valid_intents
            /\ last.detect.oracle = GEMINI_API_KEY
            /\ IF GEMINI_API_KEY /\ C10_AnswersKnown(last.reply)
               THEN /\ IntentChars[last.detect.intent] = Strip(last.reply.text)
                    /\ ~last.detect.rules
               ELSE /\ last.detect.rules
                    /\ last.detect.intent = detect_intent_rules(t)

\* the configured oracle failed on "cancel my reservation", which the keyword
\* rules then classified
C10_Witness ==
    /\ last.op = "detect_intent"
    /\ last.form.SpeechResult = T_cancel_my_reservation
    /\ GEMINI_API_KEY
    /\ last.reply = OracleRaises
    /\ last.detect.intent = "cancel_ticket"

\* the response holds a gather that listens for five seconds and posts what it
\* hears to the conversation entry point
C11_KeepListening ==
    \E i \in DOMAIN response.twiml :
        /\ response.twiml[i].verb = "Gather"
        /\ response.twiml[i].timeout = 5
        /\ response.twiml[i].action[Len(response.twiml[i].action)] = "/conversation"

\* the response holds a gather of any kind
C11_AnyGather == \E i \in DOMAIN response.twiml : response.twiml[i].verb = "Gather"

\* the response hangs up
C11_Terminate == \E i \in DOMAIN response.twiml : response.twiml[i].verb = "Hangup"

\* the response dials a number
C11_Transfer == \E i \in DOMAIN response.twiml : response.twiml[i].verb = "Dial"

\* C11: every turn, from every context and for every utterance (the empty one
\* too), answers with one document of exactly one kind among keep-listening,
\* terminate-call and transfer-call: it keeps listening (a gather with timeout 5
\* posting to /conversation) whenever it neither terminates nor transfers, and a
\* terminating or transferring answer holds no gather.
C11_OneDecision ==
    Turn =>
        /\ response.status_code = 200
        /\ ~(C11_Terminate /\ C11_Transfer)
        /\ C11_KeepListening <=> (~C11_Terminate /\ ~C11_Transfer)
        /\ (C11_Terminate \/ C11_Transfer) => ~C11_AnyGather

\* a turn with neither speech nor digits, on a call in the middle of a booking,
\* kept listening
C11_Witness ==
    /\ Turn
    /\ Utterance = <<>>
    /\ LastIntentOf(last.before, CallId) = "book_ticket"
    /\ "booking_class" \in DOMAIN ContextBefore
    /\ C11_KeepListening

\* C12: a turn transfers the call exactly when its utterance is classified as
\* talk_agent; it then speaks "Connecting you to a support agent." and dials the
\* configured agent number, or +911234567890 when none is configured, and opens
\* no gather.
C12_TransferIffTalkAgent ==
    Turn =>
        /\ C11_Transfer <=> (last.detect.intent = "talk_agent")
        /\ (last.detect.intent = "talk_agent") =>
               response.twiml =
                   <<[verb |-> "Say",
                      text |-> Text("Connecting you to a support agent.")],
                     [verb |-> "Dial",
                      number |-> IF SUPPORT_PHONE_NUMBER # "" THEN SUPPORT_PHONE_NUMBER
                                 ELSE "+911234567890"]>>

\* "customer care", which the oracle named talk_agent, was transferred to the
\* configured number in the middle of a PNR enquiry
C12_Witness ==
    /\ Turn
    /\ Utterance = T_customer_care
    /\ OracleDecided
    /\ LastIntentOf(last.before, CallId) = "check_pnr"
    /\ SUPPORT_PHONE_NUMBER = "+919876543210"
    /\ response.twiml[2] = [verb |-> "Dial", number |-> "+919876543210"]

\* every call other than c has the same context, or none, in both stores
C13_OthersUnchanged(c, before, after) ==
    \A d \in (DOMAIN before \cup DOMAIN after) \ {c} :
        /\ d \in DOMAIN before
        /\ d \in DOMAIN after
        /\ before[d] = after[d]

\* C13: /call/end always answers with status 200 and leaves the store without a
\* context for its call id, whether one existed or not (also right after a
\* terminating turn removed it), and leaves every other call's context as it was.
C13_EndCallRemovesOnlyItsCall ==
    (last.op = "end") =>
        /\ response.status_code = 200
        /\ CallId \notin DOMAIN session_context
        /\ C13_OthersUnchanged(CallId, last.before, session_context)

\* /call/end came right after the goodbye of its call had removed the context,
\* while the other call was in the middle of a booking
C13_Witness ==
    /\ last.op = "end"
    /\ last.phase = "closed"
    /\ CallId \notin DOMAIN last.before
    /\ \E d \in DOMAIN session_context :
           /\ d # CallId
           /\ "booking_class" \in DOMAIN session_context[d]

\* C14: with the requests of two calls interleaved in any order, a turn or a
\* /call/end of one call never creates, changes or removes the other call's
\* context; each answer is the one the call would have got had it run alone, and
\* each call's context is the one it would have had alone.
C14_CallsIsolated ==
    /\ (last.op \in {"conversation", "end"}) =>
           /\ C13_OthersUnchanged(CallId, last.before, session_context)
           /\ response = last.alone
    /\ \A c \in ConcurrentCallIds :
           /\ c \in DOMAIN session_context <=> c \in DOMAIN alone[c]
           /\ ContextOf(session_context, c) = ContextOf(alone[c], c)

\* a turn of one call noted its travel date while the other call, started in
\* between, was waiting for a PNR with a class already chosen
C14_Witness ==
    /\ Turn
    /\ Utterance = T_tomorrow
    /\ DOMAIN ContextBefore = {"last_intent", "booking_class"}
    /\ DOMAIN ContextAfter = {"last_intent", "booking_class", "booking_date"}
    /\ \E d \in DOMAIN session_context :
           /\ d # CallId
           /\ phase[d] = "active"
           /\ LastIntentOf(session_context, d) = "check_pnr"
           /\ "booking_class" \in DOMAIN session_context[d]
           /\ "booking_date" \notin DOMAIN session_context[d]

\* the nine intents, in the claim's words
C15_Nine ==
    {"book_ticket", "check_pnr", "cancel_ticket", "fare_enquiry", "tatkal_info",
     "talk_agent", "special_assistance", "train_live_status", "platform_locator"}

\* C15: on a fresh call (no context, or a context without last_intent) a turn
\* whose utterance classifies as one of the nine intents stores that intent as
\* last_intent under the call id and first speaks the first-turn prompt of that
\* same intent.
C15_FirstTurnStoresIntent ==
    (/\ Turn
     /\ LastIntentOf(last.before, CallId) = None
     /\ last.detect.intent \in C15_Nine) =>
        /\ CallId \in DOMAIN session_context
        /\ session_context[CallId].last_intent = last.detect.intent
        /\ response.twiml[1] = [verb |-> "Say", text |-> IntentPrompt[last.detect.intent]]
        /\ \A v \in C15_Nine \ {last.detect.intent} :
               response.twiml[1].text # IntentPrompt[v]

\* the first turn of a call, the key 7, stored special_assistance and spoke its
\* prompt
C15_Witness ==
    /\ Turn
    /\ last.phase = "new"
    /\ CallId \notin DOMAIN last.before
    /\ last.form.Digits = <<"7">>
    /\ LastIntentOf(session_context, CallId) = "special_assistance"
    /\ response.twiml[1] = Say(IntentPrompt.special_assistance)

\* C16: in the book_ticket follow-up the branches are tried in the order AC,
\* Sleeper, date, re-prompt and one is taken: an utterance mentioning "ac" (or
\* "1") sets only booking_class, to AC; otherwise one mentioning "sleeper" (or
\* "2") sets only booking_class, to Sleeper; otherwise one mentioning "tomorrow"
\* or "today" or holding one or two digits, white space and a word sets only
\* booking_date, to the lowercased utterance, keeping the stored booking_class;
\* any other utterance gets the class re-prompt and the context stays as it
\* was.  Stated for utterances without a termination keyword.
C16_BookingBranches ==
    LET t == Lower(Utterance)
        ac == Contains(<<"a","c">>, t) \/ t = <<"1">>
        sleeper == Contains(<<"s","l","e","e","p","e","r">>, t) \/ t = <<"2">>
        date == \/ Contains(<<"t","o","m","o","r","r","o","w">>, t)
                \/ Contains(<<"t","o","d","a","y">>, t)
                \/ SearchDayWord(t)
        had(k) == IF k \in DOMAIN ContextBefore THEN <<ContextBefore[k]>> ELSE <<>>
        has(k) == IF k \in DOMAIN ContextAfter THEN <<ContextAfter[k]>> ELSE <<>>
    IN  (/\ last.op = "next_step"
         /\ LastIntentOf(last.before, CallId) = "book_ticket"
         /\ ~HasEndWord) =>
            /\ has("last_intent") = <<"book_ticket">>
            /\ DOMAIN ContextAfter \subseteq
                   {"last_intent", "booking_class", "booking_date"}
            /\ has("booking_class") = had("booking_class")
                   \/ has("booking_date") = had("booking_date")
            /\ IF ac
               THEN /\ has("booking_class") = <<"AC">>
                    /\ has("booking_date") = had("booking_date")
                    /\ response = Listening(ACSelectedText)
               ELSE IF sleeper
               THEN /\ has("booking_class") = <<"Sleeper">>
                    /\ has("booking_date") = had("booking_date")
                    /\ response = Listening(SleeperSelectedText)
               ELSE IF date
               THEN /\ has("booking_date") = <<t>>
                    /\ has("booking_class") = had("booking_class")
                    /\ response = Listening(BookingDateText(t))
               ELSE /\ ContextAfter = ContextBefore
                    /\ response = Listening(SpecifyClassText)

\* "AC today" fits the AC and the date branch: the class was set, the stored
\* date kept
C16_Witness ==
    /\ last.op = "next_step"
    /\ Utterance = T_AC_today
    /\ LastIntentOf(last.before, CallId) = "book_ticket"
    /\ DictGet(ContextBefore, "booking_class", None) = "Sleeper"
    /\ DictGet(ContextBefore, "booking_date", <<>>) = Lower(T_15_November)
    /\ DictGet(ContextAfter, "booking_class", None) = "AC"
    /\ DictGet(ContextAfter, "booking_date", <<>>) = Lower(T_15_November)

\* the stored intents without a follow-up of their own, in the claim's words
C17_NoFollowUp ==
    {"cancel_ticket", "fare_enquiry", "tatkal_info", "talk_agent", "special_assistance"}

\* C17: when the stored last_intent is cancel_ticket, fare_enquiry, tatkal_info,
\* talk_agent or special_assistance, or there is none, a turn whose utterance
\* holds no termination keyword and classifies as unknown answers with the
\* generic "didn't understand" prompt inside a gather, and last_intent and the
\* slots are after the turn what they were before it.
C17_GenericFallback ==
    (/\ Turn
     /\ LastIntentOf(last.before, CallId) \in C17_NoFollowUp \cup {None}
     /\ ~HasEndWord
     /\ last.detect.intent = "unknown") =>
        /\ response.twiml = <<Gather(FallbackText)>>
        /\ C11_KeepListening
        /\ LastIntentOf(session_context, CallId) = LastIntentOf(last.before, CallId)
        /\ SlotsOf(session_context, CallId) = SlotsOf(last.before, CallId)

\* an unknown utterance during a fare enquiry, both booking slots stored, got
\* the generic prompt
C17_Witness ==
    /\ Turn
    /\ Utterance = T_asdfghjk_qwert
    /\ LastIntentOf(last.before, CallId) = "fare_enquiry"
    /\ DOMAIN SlotsOf(last.before, CallId) = {"booking_class", "booking_date"}
    /\ response = Listening(FallbackText)
    /\ ContextAfter = ContextBefore

\* C18: a context leaves the store only through a terminating turn of its call
\* (an utterance with a termination keyword, answered with the hangup) or
\* through /call/end for its call id: no /voice, no turn that keeps listening or
\* transfers, no turn or /call/end of another call and no /call/start removes
\* it, so a call that gets no further request keeps its context.
C18_RemovedOnlyByGoodbyeOrEnd ==
    \A c \in DOMAIN last.before :
        c \notin DOMAIN session_context =>
            \/ last.op = "end" /\ CallId = c
            \/ Turn /\ CallId = c /\ HasEndWord /\ C11_Terminate

\* an outbound call was handed to the provider while two calls had contexts,
\* and both are still there
C18_Witness ==
    /\ last.op = "start"
    /\ last.call # NoCall
    /\ DOMAIN last.before = ConcurrentCallIds
    /\ session_context = last.before

\* C19: in every state, every context in the store has no last_intent, or None,
\* or one of the nine intents: never "unknown".
C19_LastIntentKnown ==
    \A c \in DOMAIN session_context :
        \/ "last_intent" \notin DOMAIN session_context[c]
        \/ session_context[c].last_intent = None
        \/ /\ session_context[c].last_intent \in C15_Nine
           /\ session_context[c].last_intent # "unknown"

\* a turn classified as unknown, the oracle having failed, left the stored
\* tatkal_info in place
C19_Witness ==
    /\ Turn
    /\ last.detect.intent = "unknown"
    /\ last.detect.oracle
    /\ CallId \in DOMAIN session_context
    /\ session_context[CallId].last_intent = "tatkal_info"

\* C20: the first turn of a call id after its goodbye or its /call/end is
\* answered as a turn of a call id never seen: the answer and the context it
\* leaves are those of the same request on an empty store, and nothing of the
\* removed context (last_intent, booking_class, booking_date) shows.
C20_TurnAfterRemovalIsFresh ==
    (Turn /\ last.phase \in {"closed", "ended"}) =>
        LET fresh == conversation(EmptyDict, SUPPORT_PHONE_NUMBER, last.form,
                                  last.detect.intent)
        IN  /\ response = fresh.response
            /\ CallId \in DOMAIN session_context <=> CallId \in DOMAIN fresh.session_context
            /\ ContextAfter = ContextOf(fresh.session_context, CallId)
            /\ DOMAIN ContextAfter \subseteq {"last_intent"}
            /\ LastIntentOf(session_context, CallId) =
                   IF last.detect.intent \in C15_Nine THEN last.detect.intent ELSE None

\* "tomorrow" on a call id whose call had ended got the generic prompt, not the
\* date follow-up, while the other call was in the middle of a booking
C20_Witness ==
    /\ Turn
    /\ last.phase = "ended"
    /\ Utterance = T_tomorrow
    /\ response = Listening(FallbackText)
    /\ ContextAfter = ("last_intent" :> None)
    /\ \E d \in DOMAIN session_context :
           /\ d # CallId
           /\ "booking_class" \in DOMAIN session_context[d]

\* the value of slot k of call c in a store, as a sequence: empty when the call
\* has no context or the context has no such slot
C21_Slot(store, c, k) ==
    IF c \in DOMAIN store /\ k \in DOMAIN store[c] THEN <<store[c][k]>> ELSE <<>>

\* the request wrote slot k of call c: the slot is there with a value it did not
\* have before
C21_Written(c, k) ==
    /\ C21_Slot(session_context, c, k) # <<>>
    /\ C21_Slot(session_context, c, k) # C21_Slot(last.before, c, k)

\* C21: booking_class and booking_date are written only by a turn of the call
\* that starts with stored last_intent = book_ticket and whose utterance holds
\* no termination keyword and classifies as unknown; booking_class, when
\* present, is "AC" or "Sleeper"; a turn that switches last_intent to another
\* intent keeps the slots stored; so a context holding a booking slot belongs to
\* a call whose last_intent has been book_ticket since the context was created.
C21_SlotsOnlyFromBooking ==
    \A c \in DOMAIN session_context :
        /\ \A k \in {"booking_class", "booking_date"} :
               C21_Written(c, k) =>
                   /\ Turn
                   /\ CallId = c
                   /\ LastIntentOf(last.before, c) = "book_ticket"
                   /\ ~HasEndWord
                   /\ last.detect.intent = "unknown"
        /\ DOMAIN session_context[c] \subseteq
               {"last_intent", "booking_class", "booking_date"}
        /\ C21_Slot(session_context, c, "booking_class") \in {<<>>, <<"AC">>, <<"Sleeper">>}
        /\ (/\ Turn
            /\ CallId = c
            /\ last.detect.intent \in C15_Nine
            /\ last.detect.intent # LastIntentOf(last.before, c)) =>
               /\ LastIntentOf(session_context, c) = last.detect.intent
               /\ SlotsOf(session_context, c) = SlotsOf(last.before, c)
        /\ DOMAIN SlotsOf(session_context, c) # {} => booked[c]

\* a turn switched a booking with both slots to a cancellation, and the slots
\* are still stored
C21_Witness ==
    /\ Turn
    /\ last.detect.intent = "cancel_ticket"
    /\ LastIntentOf(last.before, CallId) = "book_ticket"
    /\ LastIntentOf(session_context, CallId) = "cancel_ticket"
    /\ C21_Slot(session_context, CallId, "booking_class") = <<"Sleeper">>
    /\ C21_Slot(session_context, CallId, "booking_date") = <<Lower(T_15_November)>>
    /\ booked[CallId]

=============================================================================
